---- MODULE Spec2Model ----
(***************************************************************************)
(* Model of src/media-utils.ts of genesys-cloud-webrtc-sdk: the media      *)
(* constraint negotiation, the acquisition entry points, the memoized      *)
(* transceiver probe, the singleton playback element and the track         *)
(* inspection helper.                                                      *)
(*                                                                         *)
(* JavaScript values are tagged records, so that values of different JS    *)
(* types can be compared: [bool |-> b], [num |-> n], [str |-> s],          *)
(* [obj |-> fields], [fn |-> name], [null |-> TRUE], [undefined |-> TRUE], *)
(* [el |-> heap index], [stream |-> name], [promise |-> index].            *)
(***************************************************************************)
EXTENDS Integers, Sequences, FiniteSets, TLC

VARIABLES
  \* ---- capability probe (media-utils.ts:7, 75-89)
  _hasTransceiverFunctionality, \* the module-level cache: Null, Bool(TRUE) or Bool(FALSE)
  RTCPeerConnection,            \* the platform constructor: what `new RTCPeerConnection()` does now
  probesConstructed,            \* number of `new RTCPeerConnection()` evaluated so far
  probeCalls,                   \* one record per call of checkHasTransceiverFunctionality
  \* ---- constraint negotiation and acquisition (media-utils.ts:21-39, 105-162)
  isChromeOrChromium,           \* browserama.isChromeOrChromium
  window,                       \* the ambient window object (navigator.mediaDevices, screen)
  requests,                     \* the platform capture requests issued, in order
  captureCalls,                 \* one record per call of startDisplayMedia / startMedia
  promises,                     \* state of every promise the platform handed out
  \* ---- playback element (media-utils.ts:44-73)
  elements,                     \* the heap of DOM elements, indexed by identity
  body,                         \* children of document.body, in document order
  createCalls,                  \* the element returned by each createAudioMediaElement call
  attachCalls,                  \* one record per call of attachAudioMedia
  logCalls,                     \* the invocations of log.call(sdk, level, message)
  \* ---- track inspection (media-utils.ts:91-97)
  stream,                       \* the MediaStream under inspection: [tracks |-> <<track, ...>>]
  endedChecks                   \* one record per call of checkAllTracksHaveEnded

probeVars == <<_hasTransceiverFunctionality, RTCPeerConnection, probesConstructed, probeCalls>>
acquisitionVars == <<isChromeOrChromium, window, requests, captureCalls, promises>>
playbackVars == <<elements, body, createCalls, attachCalls, logCalls>>
trackVars == <<stream, endedChecks>>
vars == <<probeVars, acquisitionVars, playbackVars, trackVars>>

(***************************************************************************)
(* Bounds of the model.                                                    *)
(***************************************************************************)
MaxProbeCalls == 3
MaxCaptureCalls == 2
MaxCreateCalls == 2
MaxAttachCalls == 2
MaxTracks == 3
MaxEndedChecks == 2

(***************************************************************************)
(* JavaScript values.                                                      *)
(***************************************************************************)
Bool(b) == [bool |-> b]
Num(n) == [num |-> n]
Str(s) == [str |-> s]
Obj(fields) == [obj |-> fields]
Fn(name) == [fn |-> name]
Null == [null |-> TRUE]
Undefined == [undefined |-> TRUE]
EmptyObject == Obj([k \in {} |-> Undefined])

\* o.k : a missing property reads as undefined
Get(o, k) == IF k \in DOMAIN o.obj THEN o.obj[k] ELSE Undefined

\* ToBoolean, as used by `if (x)`, `!x`, `!!x` and `a && b`
Truthy(v) ==
  CASE "bool" \in DOMAIN v -> v.bool
    [] "num" \in DOMAIN v -> v.num # 0
    [] "str" \in DOMAIN v -> v.str # ""
    [] "null" \in DOMAIN v -> FALSE
    [] "undefined" \in DOMAIN v -> FALSE
    [] OTHER -> TRUE

\* !!v
NotNot(v) == Bool(Truthy(v))

\* !v
Not(v) == Bool(~Truthy(v))

(***************************************************************************)
(* Capability probe: checkHasTransceiverFunctionality.                     *)
(***************************************************************************)
\* What the platform constructor can be: it throws, or it yields a connection
\* object with or without getTransceivers.
PeerConnectionCtors ==
  { [throws |-> TRUE, instance |-> EmptyObject],
    [throws |-> FALSE, instance |-> EmptyObject],
    [throws |-> FALSE, instance |-> Obj([getTransceivers |-> Fn("getTransceivers")])] }

\* if (_hasTransceiverFunctionality !== null) return _hasTransceiverFunctionality;
CachedAlwaysStale == FALSE
IsCached == _hasTransceiverFunctionality # Null

\* try { new RTCPeerConnection(); flag = !!pc.getTransceivers } catch { flag = false }
ProbeWithoutNormalizing ==
  IF RTCPeerConnection.throws
  THEN Null
  ELSE Get(RTCPeerConnection.instance, "getTransceivers")
ProbeResult ==
  IF RTCPeerConnection.throws
  THEN Bool(FALSE)
  ELSE NotNot(Get(RTCPeerConnection.instance, "getTransceivers"))

checkHasTransceiverFunctionality ==
  /\ Len(probeCalls) < MaxProbeCalls
  /\ IF IsCached
     THEN /\ probeCalls' = Append(probeCalls,
               [returned |-> _hasTransceiverFunctionality, probed |-> FALSE,
                platform |-> RTCPeerConnection])
          /\ UNCHANGED <<_hasTransceiverFunctionality, probesConstructed>>
     ELSE /\ probesConstructed' = probesConstructed + 1
          /\ _hasTransceiverFunctionality' = ProbeResult
          /\ probeCalls' = Append(probeCalls,
               [returned |-> _hasTransceiverFunctionality', probed |-> TRUE,
                platform |-> RTCPeerConnection])
  /\ UNCHANGED RTCPeerConnection

\* The platform's real capability changes between calls.
PlatformCapabilityChanges ==
  /\ \E ctor \in PeerConnectionCtors \ {RTCPeerConnection} : RTCPeerConnection' = ctor
  /\ UNCHANGED <<_hasTransceiverFunctionality, probesConstructed, probeCalls>>

ProbeInit ==
  /\ _hasTransceiverFunctionality = Null
  /\ RTCPeerConnection \in PeerConnectionCtors
  /\ probesConstructed = 0
  /\ probeCalls = <<>>

ProbeIdle ==
  /\ _hasTransceiverFunctionality = Null
  /\ RTCPeerConnection = [throws |-> FALSE, instance |-> EmptyObject]
  /\ probesConstructed = 0
  /\ probeCalls = <<>>

(***************************************************************************)
(* Constraint negotiation and acquisition.                                 *)
(***************************************************************************)
\* window.screen of the hosts considered: <<width, height>>
Screens == { <<1280, 720>>, <<1920, 1080>> }

\* declare var window: navigator.mediaDevices is always there and carries
\* getUserMedia; getDisplayMedia is the one optional member.
MediaDevices(hasNative) ==
  IF hasNative
  THEN Obj([getUserMedia |-> Fn("getUserMedia"), getDisplayMedia |-> Fn("getDisplayMedia")])
  ELSE Obj([getUserMedia |-> Fn("getUserMedia")])

Window(hasNative, screen) ==
  Obj([navigator |-> Obj([mediaDevices |-> MediaDevices(hasNative)]),
       screen |-> Obj([width |-> Num(screen[1]), height |-> Num(screen[2])])])

Windows == { Window(hasNative, screen) : hasNative \in BOOLEAN, screen \in Screens }

\* !!(window.navigator && window.navigator.mediaDevices && window.navigator.mediaDevices.getDisplayMedia)
hasGetDisplayMedia ==
  /\ Truthy(Get(window, "navigator"))
  /\ Truthy(Get(Get(window, "navigator"), "mediaDevices"))
  /\ Truthy(Get(Get(Get(window, "navigator"), "mediaDevices"), "getDisplayMedia"))

getScreenShareConstraintsWithTabAudio ==
  IF isChromeOrChromium
  THEN IF hasGetDisplayMedia
       THEN Obj([audio |-> Bool(TRUE), video |-> Bool(TRUE)])
       ELSE Obj([audio |-> Bool(FALSE),
                 video |-> Obj([mandatory |-> Obj(
                   [chromeMediaSource |-> Str("desktop"),
                    maxWidth |-> Get(Get(window, "screen"), "width"),
                    maxHeight |-> Get(Get(window, "screen"), "height"),
                    maxFrameRate |-> Num(15)])])])
  ELSE Obj([audio |-> Bool(FALSE), video |-> Obj([mediaSource |-> Str("window")])])

getScreenShareConstraintsNativeFirst ==
  IF hasGetDisplayMedia
  THEN Obj([audio |-> Bool(FALSE), video |-> Bool(TRUE)])
  ELSE IF isChromeOrChromium
       THEN Obj([audio |-> Bool(FALSE),
                 video |-> Obj([mandatory |-> Obj(
                   [chromeMediaSource |-> Str("desktop"),
                    maxWidth |-> Get(Get(window, "screen"), "width"),
                    maxHeight |-> Get(Get(window, "screen"), "height"),
                    maxFrameRate |-> Num(15)])])])
       ELSE Obj([audio |-> Bool(FALSE), video |-> Obj([mediaSource |-> Str("window")])])

getScreenShareConstraints ==
  IF isChromeOrChromium
  THEN IF hasGetDisplayMedia
       THEN Obj([audio |-> Bool(FALSE), video |-> Bool(TRUE)])
       ELSE Obj([audio |-> Bool(FALSE),
                 video |-> Obj([mandatory |-> Obj(
                   [chromeMediaSource |-> Str("desktop"),
                    maxWidth |-> Get(Get(window, "screen"), "width"),
                    maxHeight |-> Get(Get(window, "screen"), "height"),
                    maxFrameRate |-> Num(15)])])])
  ELSE Obj([audio |-> Bool(FALSE), video |-> Obj([mediaSource |-> Str("window")])])

\* the Chromium audio bundle of getVideoConstraints
ChromiumAudio ==
  Obj([googAudioMirroring |-> Bool(FALSE),
       autoGainControl |-> Bool(TRUE),
       echoCancellation |-> Bool(TRUE),
       noiseSuppression |-> Bool(TRUE),
       googDucking |-> Bool(FALSE),
       googHighpassFilter |-> Bool(TRUE)])

getVideoConstraintsCameraOnlyFirst(cameraOnly) ==
  LET base == [video |-> EmptyObject, audio |-> EmptyObject]
      afterCameraOnly == IF cameraOnly THEN [base EXCEPT !.audio = Bool(FALSE)] ELSE base
      afterEngine ==
        IF isChromeOrChromium
        THEN [video |-> Obj([googNoiseReduction |-> Bool(TRUE)]), audio |-> ChromiumAudio]
        ELSE afterCameraOnly
  IN Obj(afterEngine)

getVideoConstraints(cameraOnly) ==
  LET base == [video |-> EmptyObject, audio |-> EmptyObject]
      afterEngine ==
        IF isChromeOrChromium
        THEN [video |-> Obj([googNoiseReduction |-> Bool(TRUE)]), audio |-> ChromiumAudio]
        ELSE base
      afterCameraOnly ==
        IF cameraOnly THEN [afterEngine EXCEPT !.audio = Bool(FALSE)] ELSE afterEngine
  IN Obj(afterCameraOnly)

\* The argument of startMedia: omitted (undefined), or an object in which video
\* and audio are each absent, true or false.
OptionFlags == { Undefined, Bool(TRUE), Bool(FALSE) }

Options(video, audio) ==
  Obj([k \in {f \in {"video", "audio"} :
                 (f = "video" /\ video # Undefined) \/ (f = "audio" /\ audio # Undefined)}
         |-> IF k = "video" THEN video ELSE audio])

StartMediaArgs == { Undefined } \cup { Options(v, a) : v \in OptionFlags, a \in OptionFlags }

\* opts = { video: true, audio: true } : the default applies to an omitted argument
DefaultOpts == Obj([video |-> Bool(TRUE), audio |-> Bool(TRUE)])

startMediaConstraintsAudioAsCameraOnly(arg) ==
  LET opts == IF arg = Undefined THEN DefaultOpts ELSE arg
  IN IF Truthy(Get(opts, "video"))
     THEN getVideoConstraints(Truthy(Get(opts, "audio")))
     ELSE Obj([audio |-> Bool(TRUE)])

\* the constraints startMedia hands to getUserMedia
startMediaConstraints(arg) ==
  LET opts == IF arg = Undefined THEN DefaultOpts ELSE arg
  IN IF Truthy(Get(opts, "video"))
     THEN getVideoConstraints(Truthy(Not(Get(opts, "audio"))))
     ELSE Obj([audio |-> Bool(TRUE)])

\* The platform calls one invocation of startDisplayMedia makes, in order; the
\* promise of the last one is what the invocation returns.
startDisplayMediaPlatformCallsBoth ==
  LET constraints == getScreenShareConstraints
  IN IF hasGetDisplayMedia
     THEN << [api |-> "getDisplayMedia", constraints |-> constraints],
             [api |-> "getUserMedia", constraints |-> constraints] >>
     ELSE << [api |-> "getUserMedia", constraints |-> constraints] >>

startDisplayMediaPlatformCalls ==
  LET constraints == getScreenShareConstraints
  IN IF hasGetDisplayMedia
     THEN << [api |-> "getDisplayMedia", constraints |-> constraints] >>
     ELSE << [api |-> "getUserMedia", constraints |-> constraints] >>

\* The platform calls one invocation of startMedia(arg) makes.
startMediaPlatformCalls(arg) ==
  << [api |-> "getUserMedia", constraints |-> startMediaConstraints(arg)] >>

\* An entry point runs to its return: every platform call it makes is issued
\* and hands back a fresh pending promise; the entry point returns the last one.
Invoke(fn, arg, calls) ==
  /\ Len(captureCalls) < MaxCaptureCalls
  /\ requests' = requests \o
       [i \in 1..Len(calls) |->
          [api |-> calls[i].api, constraints |-> calls[i].constraints,
           promise |-> Len(promises) + i, call |-> Len(captureCalls) + 1]]
  /\ promises' = promises \o [i \in 1..Len(calls) |-> "pending"]
  /\ captureCalls' = Append(captureCalls,
       [fn |-> fn, arg |-> arg, returned |-> Len(promises) + Len(calls)])
  /\ UNCHANGED <<isChromeOrChromium, window>>

startDisplayMedia == Invoke("startDisplayMedia", Undefined, startDisplayMediaPlatformCalls)

startMedia == \E arg \in StartMediaArgs : Invoke("startMedia", arg, startMediaPlatformCalls(arg))

\* The platform settles a pending capture promise: the user grants or denies,
\* the device exists or not.
PlatformSettles ==
  \E p \in 1..Len(promises), outcome \in {"fulfilled", "rejected"} :
    /\ promises[p] = "pending"
    /\ promises' = [promises EXCEPT ![p] = outcome]
    /\ UNCHANGED <<isChromeOrChromium, window, requests, captureCalls>>

AcquisitionInit ==
  /\ isChromeOrChromium \in BOOLEAN
  /\ window \in Windows
  /\ requests = <<>>
  /\ captureCalls = <<>>
  /\ promises = <<>>

AcquisitionIdle ==
  /\ isChromeOrChromium = FALSE
  /\ window = Window(FALSE, <<1280, 720>>)
  /\ requests = <<>>
  /\ captureCalls = <<>>
  /\ promises = <<>>

(***************************************************************************)
(* Playback element: createAudioMediaElement, attachAudioMedia.            *)
(***************************************************************************)
PC_AUDIO_EL_CLASS == "__pc-webrtc-inbound"

Element(tag, classes) ==
  [tag |-> tag, classList |-> classes, style |-> "", autoplay |-> FALSE, srcObject |-> Null]

\* Documents the module may be loaded into: none holds an audio element with
\* the reserved class. Element 1 is an audio element the caller owns and keeps
\* out of the document; the others are children of document.body.
InitialDocuments ==
  { [elements |-> <<Element("audio", {})>>, body |-> <<>>],
    [elements |-> <<Element("audio", {}), Element("div", {PC_AUDIO_EL_CLASS})>>, body |-> <<2>>],
    [elements |-> <<Element("audio", {}), Element("audio", {"ringtone"})>>, body |-> <<2>>],
    [elements |-> <<Element("audio", {}), Element("audio", {"ringtone"}),
                    Element("div", {PC_AUDIO_EL_CLASS})>>, body |-> <<2, 3>>] }

Sdks == { "sdkA", "sdkB" }
Streams == { [stream |-> "inbound1"], [stream |-> "inbound2"] }

\* the selector audio.__pc-webrtc-inbound
Matches(e) == elements[e].tag = "audio" /\ PC_AUDIO_EL_CLASS \in elements[e].classList

\* document.querySelector(`audio.${PC_AUDIO_EL_CLASS}`): the first match in
\* document order, or null
querySelectorDetached == Null
querySelector ==
  LET hits == { i \in 1..Len(body) : Matches(body[i]) }
  IN IF hits = {}
     THEN Null
     ELSE [el |-> body[CHOOSE i \in hits : \A j \in hits : i <= j]]

\* createAudioMediaElement(): the heap and the body after the call, and the
\* element it returns
createAudioMediaElement ==
  LET existing == querySelector
      audio == [Element("audio", {PC_AUDIO_EL_CLASS}) EXCEPT !.style = "visibility: hidden"]
  IN IF Truthy(existing)
     THEN [elements |-> elements, body |-> body, returned |-> existing]
     ELSE [elements |-> Append(elements, audio),
           body |-> Append(body, Len(elements) + 1),
           returned |-> [el |-> Len(elements) + 1]]

CreateAudioMediaElement ==
  /\ Len(createCalls) < MaxCreateCalls
  /\ LET r == createAudioMediaElement
     IN /\ elements' = r.elements
        /\ body' = r.body
        /\ createCalls' = Append(createCalls, r.returned)
  /\ UNCHANGED <<attachCalls, logCalls>>

\* if (audioElement.srcObject) log.call(sdk, LogLevels.warn, ...)
Warns(srcObject) == Truthy(srcObject)

\* audioElement.autoplay = true; audioElement.srcObject = stream
BindKeepingFirst(element, s) ==
  [element EXCEPT !.autoplay = TRUE,
                  !.srcObject = IF Truthy(element.srcObject) THEN element.srcObject ELSE s]
Bind(element, s) == [element EXCEPT !.autoplay = TRUE, !.srcObject = s]

\* attachAudioMedia(sdk, stream, audioElement?)
AttachAudioMedia ==
  \E sdk \in Sdks, s \in Streams,
     audioElement \in { Undefined } \cup { [el |-> e] : e \in { x \in 1..Len(elements) : elements[x].tag = "audio" } } :
    /\ Len(attachCalls) < MaxAttachCalls
    /\ LET created == IF ~Truthy(audioElement)
                      THEN createAudioMediaElement
                      ELSE [elements |-> elements, body |-> body, returned |-> audioElement]
           target == created.returned.el
           bound == created.elements[target].srcObject
       IN /\ logCalls' = IF Warns(bound)
                         THEN Append(logCalls,
                                [sdk |-> sdk, level |-> "warn",
                                 message |-> "Attaching media to an audio element that already has a srcObject. This can result is audio issues.",
                                 during |-> Len(attachCalls) + 1])
                         ELSE logCalls
          /\ elements' = [created.elements EXCEPT ![target] = Bind(@, s)]
          /\ body' = created.body
          /\ createCalls' = IF ~Truthy(audioElement)
                            THEN Append(createCalls, created.returned)
                            ELSE createCalls
          /\ attachCalls' = Append(attachCalls,
               [sdk |-> sdk, stream |-> s, audioElement |-> audioElement,
                target |-> target, hadSource |-> Truthy(bound)])

PlaybackInit ==
  /\ \E d \in InitialDocuments : elements = d.elements /\ body = d.body
  /\ createCalls = <<>>
  /\ attachCalls = <<>>
  /\ logCalls = <<>>

PlaybackIdle ==
  /\ elements = <<Element("audio", {})>>
  /\ body = <<>>
  /\ createCalls = <<>>
  /\ attachCalls = <<>>
  /\ logCalls = <<>>

(***************************************************************************)
(* Track inspection: checkAllTracksHaveEnded.                              *)
(***************************************************************************)
ReadyStates == { "live", "ended" }

RECURSIVE TrackLists(_)
TrackLists(n) ==
  IF n = 0
  THEN { <<>> }
  ELSE TrackLists(n - 1) \cup
       { Append(ts, [readyState |-> r]) : ts \in { t \in TrackLists(n - 1) : Len(t) = n - 1 },
                                          r \in ReadyStates }

\* stream.getTracks()
getTracks(st) == st.tracks

\* stream.getTracks().forEach(t => all = t.readyState === 'ended' && all), from
\* the accumulator's initial value
RECURSIVE forEachTrack(_, _)
forEachTrack(tracks, allTracksHaveEnded) ==
  IF tracks = <<>>
  THEN allTracksHaveEnded
  ELSE forEachTrack(Tail(tracks), Head(tracks).readyState = "ended" /\ allTracksHaveEnded)

checkLastTrackHasEnded(st) ==
  LET tracks == getTracks(st)
  IN IF tracks = <<>> THEN TRUE ELSE tracks[Len(tracks)].readyState = "ended"

checkAllTracksHaveEnded(st) == forEachTrack(getTracks(st), TRUE)

CheckAllTracksHaveEnded ==
  /\ Len(endedChecks) < MaxEndedChecks
  /\ stream' = stream
  /\ endedChecks' = Append(endedChecks,
       [before |-> stream, returned |-> checkAllTracksHaveEnded(stream), after |-> stream'])

\* The platform ends a live track (device unplugged, permission revoked).
TrackEnds ==
  \E i \in 1..Len(stream.tracks) :
    /\ stream.tracks[i].readyState = "live"
    /\ stream' = [stream EXCEPT !.tracks[i].readyState = "ended"]
    /\ UNCHANGED endedChecks

TrackInit ==
  /\ stream \in { [tracks |-> ts] : ts \in TrackLists(MaxTracks) }
  /\ endedChecks = <<>>

TrackIdle ==
  /\ stream = [tracks |-> <<>>]
  /\ endedChecks = <<>>

(***************************************************************************)
(* Specifications: one per part of the module; the other parts stay idle.  *)
(***************************************************************************)
ProbeNext ==
  \/ checkHasTransceiverFunctionality /\ UNCHANGED <<acquisitionVars, playbackVars, trackVars>>
  \/ PlatformCapabilityChanges /\ UNCHANGED <<acquisitionVars, playbackVars, trackVars>>

InitProbe == ProbeInit /\ AcquisitionIdle /\ PlaybackIdle /\ TrackIdle

SpecProbe ==
  /\ InitProbe
  /\ [][ProbeNext]_vars

AcquisitionNext ==
  \/ startDisplayMedia /\ UNCHANGED <<probeVars, playbackVars, trackVars>>
  \/ startMedia /\ UNCHANGED <<probeVars, playbackVars, trackVars>>
  \/ PlatformSettles /\ UNCHANGED <<probeVars, playbackVars, trackVars>>

InitAcquisition == ProbeIdle /\ AcquisitionInit /\ PlaybackIdle /\ TrackIdle

SpecAcquisition ==
  /\ InitAcquisition
  /\ [][AcquisitionNext]_vars

PlaybackNext ==
  \/ CreateAudioMediaElement /\ UNCHANGED <<probeVars, acquisitionVars, trackVars>>
  \/ AttachAudioMedia /\ UNCHANGED <<probeVars, acquisitionVars, trackVars>>

InitPlayback == ProbeIdle /\ AcquisitionIdle /\ PlaybackInit /\ TrackIdle

SpecPlayback ==
  /\ InitPlayback
  /\ [][PlaybackNext]_vars

TrackNext ==
  \/ CheckAllTracksHaveEnded /\ UNCHANGED <<probeVars, acquisitionVars, playbackVars>>
  \/ TrackEnds /\ UNCHANGED <<probeVars, acquisitionVars, playbackVars>>

InitTracks == ProbeIdle /\ AcquisitionIdle /\ PlaybackIdle /\ TrackInit

SpecTracks ==
  /\ InitTracks
  /\ [][TrackNext]_vars

(***************************************************************************)
(* Properties.                                                             *)
(***************************************************************************)
Booleans == { Bool(TRUE), Bool(FALSE) }

\* what a fresh probe of platform constructor `ctor` would answer
FreshAnswer(ctor) ==
  Bool(~ctor.throws /\ "getTransceivers" \in DOMAIN ctor.instance.obj)

\* C1: the capability flag is computed at most once. It is unknown (null)
\* until the first call of checkHasTransceiverFunctionality; from then on it
\* keeps the boolean the first call returned, every call returns that value
\* whatever the platform has become, and only the first call constructs a
\* probe peer connection.
C1_FlagComputedAtMostOnce ==
  /\ probesConstructed <= 1
  /\ probeCalls = <<>> => _hasTransceiverFunctionality = Null /\ probesConstructed = 0
  /\ probeCalls # <<>> =>
       /\ _hasTransceiverFunctionality \in Booleans
       /\ _hasTransceiverFunctionality = probeCalls[1].returned
       /\ probeCalls[1].returned = FreshAnswer(probeCalls[1].platform)
       /\ \A i \in 1..Len(probeCalls) : probeCalls[i].returned = probeCalls[1].returned
       /\ \A i \in 2..Len(probeCalls) : ~probeCalls[i].probed

\* a later call answered from the cache although a fresh probe of the platform
\* as it then was would have answered differently
C1_Witness ==
  \E i \in 2..Len(probeCalls) :
    /\ probeCalls[i].returned = probeCalls[1].returned
    /\ FreshAnswer(probeCalls[i].platform) # probeCalls[i].returned

\* C2: checkHasTransceiverFunctionality never fails. Every call returns a
\* boolean; a first call during which the peer connection constructor throws
\* returns false and caches false; after any call the flag is no longer
\* unknown.
C2_ProbeFailureIsFalse ==
  /\ \A i \in 1..Len(probeCalls) :
       /\ probeCalls[i].returned \in Booleans
       /\ probeCalls[i].probed /\ probeCalls[i].platform.throws
            => probeCalls[i].returned = Bool(FALSE)
  /\ probeCalls # <<>> =>
       /\ _hasTransceiverFunctionality # Null
       /\ probeCalls[1].platform.throws => _hasTransceiverFunctionality = Bool(FALSE)

\* the constructor threw during the first call, which returned false
C2_Witness ==
  /\ probeCalls # <<>>
  /\ probeCalls[1].platform.throws
  /\ probeCalls[1].probed
  /\ probeCalls[1].returned = Bool(FALSE)
  /\ _hasTransceiverFunctionality = Bool(FALSE)

\* the requests issued by invocations of entry point fn
RequestsOf(fn) == { j \in 1..Len(requests) : captureCalls[requests[j].call].fn = fn }

\* whether the host exposes navigator.mediaDevices.getDisplayMedia
NativeDisplayCapture == "getDisplayMedia" \in DOMAIN window.obj.navigator.obj.mediaDevices.obj

\* C3: on every engine, with or without native display capture,
\* getScreenShareConstraints yields audio: false, and so does every capture
\* request startDisplayMedia has issued, through either primitive.
C3_ScreenShareNeverRequestsAudio ==
  /\ Get(getScreenShareConstraints, "audio") = Bool(FALSE)
  /\ \A j \in RequestsOf("startDisplayMedia") : Get(requests[j].constraints, "audio") = Bool(FALSE)

\* startDisplayMedia has issued a request through the generic primitive
C3_Witness ==
  \E j \in RequestsOf("startDisplayMedia") :
    /\ requests[j].api = "getUserMedia"
    /\ Get(requests[j].constraints, "audio") = Bool(FALSE)

\* the legacy desktop-capture fields
LegacyDesktopFields ==
  [chromeMediaSource |-> Str("desktop"),
   maxWidth |-> window.obj.screen.obj.width,
   maxHeight |-> window.obj.screen.obj.height,
   maxFrameRate |-> Num(15)]

\* C4 as stated: Chromium with native capture yields {audio:false, video:true};
\* Chromium without it yields the four legacy fields directly in the video
\* object; any other engine yields {audio:false, video:{mediaSource:'window'}}.
C4_Original_LegacyFieldsDirectlyInVideo ==
  /\ isChromeOrChromium /\ NativeDisplayCapture
       => getScreenShareConstraints = Obj([audio |-> Bool(FALSE), video |-> Bool(TRUE)])
  /\ isChromeOrChromium /\ ~NativeDisplayCapture
       => getScreenShareConstraints =
            Obj([audio |-> Bool(FALSE), video |-> Obj(LegacyDesktopFields)])
  /\ ~isChromeOrChromium
       => getScreenShareConstraints =
            Obj([audio |-> Bool(FALSE), video |-> Obj([mediaSource |-> Str("window")])])

\* C4 (amended): as C4, except that on a Chromium-family engine without native
\* display capture the video object holds exactly one member, mandatory, and
\* the four legacy fields are the members of video.mandatory.
C4_LegacyFieldsUnderMandatory ==
  /\ isChromeOrChromium /\ NativeDisplayCapture
       => getScreenShareConstraints = Obj([audio |-> Bool(FALSE), video |-> Bool(TRUE)])
  /\ isChromeOrChromium /\ ~NativeDisplayCapture
       => getScreenShareConstraints =
            Obj([audio |-> Bool(FALSE),
                 video |-> Obj([mandatory |-> Obj(LegacyDesktopFields)])])
  /\ ~isChromeOrChromium
       => getScreenShareConstraints =
            Obj([audio |-> Bool(FALSE), video |-> Obj([mediaSource |-> Str("window")])])

\* startDisplayMedia has sent the legacy constraints of a Chromium engine
\* without native display capture
C4_Witness ==
  /\ isChromeOrChromium /\ ~NativeDisplayCapture
  /\ \E j \in RequestsOf("startDisplayMedia") :
       DOMAIN Get(requests[j].constraints, "video").obj = {"mandatory"}

\* the argument a startMedia request was made for
ArgOf(j) == captureCalls[requests[j].call].arg

\* C5: what startMedia sends to getUserMedia. Options with video false send
\* exactly {audio:true}; options with video true send
\* getVideoConstraints(!options.audio); an omitted argument sends
\* getVideoConstraints(false).
C5_StartMediaConstraints ==
  \A j \in RequestsOf("startMedia") :
    /\ requests[j].api = "getUserMedia"
    /\ ArgOf(j) = Undefined => requests[j].constraints = getVideoConstraints(FALSE)
    /\ ArgOf(j) # Undefined /\ Get(ArgOf(j), "video") = Bool(FALSE)
         => requests[j].constraints = Obj([audio |-> Bool(TRUE)])
    /\ ArgOf(j) # Undefined /\ Get(ArgOf(j), "video") = Bool(TRUE)
         => requests[j].constraints = getVideoConstraints(Get(ArgOf(j), "audio") # Bool(TRUE))

\* on Chromium, startMedia({video:false, audio:false}) has sent {audio:true}
\* and startMedia({video:true}) has sent camera-only constraints
C5_Witness ==
  /\ isChromeOrChromium
  /\ \E j \in RequestsOf("startMedia") :
       /\ ArgOf(j) = Options(Bool(FALSE), Bool(FALSE))
       /\ requests[j].constraints = Obj([audio |-> Bool(TRUE)])
  /\ \E j \in RequestsOf("startMedia") :
       /\ ArgOf(j) = Options(Bool(TRUE), Undefined)
       /\ Get(requests[j].constraints, "audio") = Bool(FALSE)

\* C6: getVideoConstraints(true) yields audio: false on every engine;
\* getVideoConstraints(false) yields on Chromium a non-empty audio bundle with
\* echoCancellation, noiseSuppression and autoGainControl true and a video
\* object with the noise-reduction hint, and elsewhere an empty audio object
\* and an empty video object.
C6_VideoConstraints ==
  /\ Get(getVideoConstraints(TRUE), "audio") = Bool(FALSE)
  /\ isChromeOrChromium =>
       LET c == getVideoConstraints(FALSE)
       IN /\ DOMAIN Get(c, "audio").obj # {}
          /\ Get(Get(c, "audio"), "echoCancellation") = Bool(TRUE)
          /\ Get(Get(c, "audio"), "noiseSuppression") = Bool(TRUE)
          /\ Get(Get(c, "audio"), "autoGainControl") = Bool(TRUE)
          /\ Get(Get(c, "video"), "googNoiseReduction") = Bool(TRUE)
  /\ ~isChromeOrChromium =>
       LET c == getVideoConstraints(FALSE)
       IN /\ Get(c, "audio") = EmptyObject
          /\ Get(c, "video") = EmptyObject

\* on Chromium a camera-only request went out: audio false overrides the
\* bundle, the video hint stays
C6_Witness ==
  /\ isChromeOrChromium
  /\ \E j \in RequestsOf("startMedia") :
       /\ ArgOf(j) = Options(Bool(TRUE), Bool(FALSE))
       /\ requests[j].constraints = getVideoConstraints(TRUE)
       /\ Get(requests[j].constraints, "audio") = Bool(FALSE)
       /\ Get(Get(requests[j].constraints, "video"), "googNoiseReduction") = Bool(TRUE)

\* C7: every invocation of startDisplayMedia has issued exactly one platform
\* request, whatever became of it: through getDisplayMedia if and only if the
\* host has it, otherwise through getUserMedia, with the constraints of
\* getScreenShareConstraints; the invocation's result is that request's
\* promise, so a failed request is the failed result, and no second request
\* follows.
C7_OneRequestPerDisplayCall ==
  \A i \in 1..Len(captureCalls) :
    captureCalls[i].fn = "startDisplayMedia" =>
      LET mine == { j \in 1..Len(requests) : requests[j].call = i }
      IN /\ Cardinality(mine) = 1
         /\ \A j \in mine :
              /\ requests[j].api = "getDisplayMedia" <=> NativeDisplayCapture
              /\ requests[j].api = "getUserMedia" <=> ~NativeDisplayCapture
              /\ requests[j].constraints = getScreenShareConstraints
              /\ captureCalls[i].returned = requests[j].promise

\* a native display-capture request was rejected, and the generic primitive
\* was not tried
C7_Witness ==
  \E i \in 1..Len(captureCalls) :
    /\ captureCalls[i].fn = "startDisplayMedia"
    /\ promises[captureCalls[i].returned] = "rejected"
    /\ \A j \in 1..Len(requests) : requests[j].call = i => requests[j].api = "getDisplayMedia"

\* the audio elements of the document that carry the reserved class
MarkedAudio ==
  { i \in 1..Len(body) :
      elements[body[i]].tag = "audio" /\ PC_AUDIO_EL_CLASS \in elements[body[i]].classList }

\* C8: in a document that started without a marked audio element, the body
\* holds none before the first createAudioMediaElement call and exactly one
\* after any number of calls, hidden, and every call has returned that element.
C8_SingletonPlaybackElement ==
  /\ createCalls = <<>> => MarkedAudio = {}
  /\ createCalls # <<>> =>
       /\ Cardinality(MarkedAudio) = 1
       /\ \A i \in MarkedAudio :
            /\ elements[body[i]].style = "visibility: hidden"
            /\ \A k \in 1..Len(createCalls) : createCalls[k] = [el |-> body[i]]
            /\ \A k \in 1..Len(body) : body[k] = body[i] => k = i

\* the element was created behind decoys (another audio element, a div with
\* the reserved class) and a later call found it again
C8_Witness ==
  /\ Len(createCalls) >= 2
  /\ Len(body) = 3
  /\ createCalls[1] = [el |-> body[3]]
  /\ createCalls[2] = createCalls[1]

\* the attach calls made on element e
AttachesTo(e) == { i \in 1..Len(attachCalls) : attachCalls[i].target = e }

\* the warnings logged during attach call i
WarningsOf(i) == { k \in 1..Len(logCalls) : logCalls[k].during = i }

\* C9: attachAudioMedia is last-attach-wins. The target is the given element,
\* or the singleton when none is given; after the calls the target plays the
\* stream of the latest call on it with autoplay on; a call logs one warning
\* through its caller's channel if the target had a source when it was made,
\* and nothing otherwise, so the first attach to an element logs nothing and
\* every later one logs once.
C9_LastAttachWins ==
  /\ \A e \in 1..Len(elements) :
       AttachesTo(e) # {} =>
         LET last == CHOOSE i \in AttachesTo(e) : \A j \in AttachesTo(e) : j <= i
         IN /\ elements[e].srcObject = attachCalls[last].stream
            /\ elements[e].autoplay
  /\ \A i \in 1..Len(attachCalls) :
       /\ attachCalls[i].audioElement # Undefined
            => attachCalls[i].target = attachCalls[i].audioElement.el
       /\ attachCalls[i].audioElement = Undefined
            => \E b \in MarkedAudio : attachCalls[i].target = body[b]
       /\ Cardinality(WarningsOf(i)) = IF attachCalls[i].hadSource THEN 1 ELSE 0
       /\ attachCalls[i].hadSource <=> \E j \in AttachesTo(attachCalls[i].target) : j < i
       /\ \A k \in WarningsOf(i) :
            logCalls[k].sdk = attachCalls[i].sdk /\ logCalls[k].level = "warn"
  /\ \A k \in 1..Len(logCalls) : logCalls[k].during \in 1..Len(attachCalls)

\* two callers attached different streams to the singleton: the second stream
\* plays and only the second call warned, through the second caller's channel
C9_Witness ==
  /\ Len(attachCalls) = 2
  /\ attachCalls[1].audioElement = Undefined /\ attachCalls[2].audioElement = Undefined
  /\ attachCalls[1].stream # attachCalls[2].stream
  /\ attachCalls[1].sdk # attachCalls[2].sdk
  /\ elements[attachCalls[2].target].srcObject = attachCalls[2].stream
  /\ Len(logCalls) = 1
  /\ logCalls[1].during = 2
  /\ logCalls[1].sdk = attachCalls[2].sdk

\* C10: checkAllTracksHaveEnded returns true exactly when every track of the
\* stream is ended (so: true without tracks, false with a live track at any
\* position), and leaves the stream and its tracks as they were.
C10_AllTracksEnded ==
  \A k \in 1..Len(endedChecks) :
    LET c == endedChecks[k]
    IN /\ c.returned <=> \A i \in 1..Len(c.before.tracks) : c.before.tracks[i].readyState = "ended"
       /\ c.before.tracks = <<>> => c.returned
       /\ c.after = c.before

\* a stream whose first track is live and whose last track is ended was found
\* not ended
C10_Witness ==
  \E k \in 1..Len(endedChecks) :
    LET ts == endedChecks[k].before.tracks
    IN /\ Len(ts) >= 2
       /\ ts[1].readyState = "live"
       /\ ts[Len(ts)].readyState = "ended"
       /\ ~endedChecks[k].returned

====
